---------------------------- MODULE Spec2Model ----------------------------
(***************************************************************************)
(* Model of three parts of ros2_control_doosan:                            *)
(*   - ControllerManager::RTControllerListWrapper, the double-buffered     *)
(*     controller list shared by the real-time loop and the non-real-time  *)
(*     service threads (controller_manager.hpp);                           *)
(*   - ControllerManager::switch_controller and the switch that update()   *)
(*     carries out: stop hooks, publication of the list, start hooks;      *)
(*   - fake_components::GenericSystem, the loopback hardware backend       *)
(*     (generic_system.cpp).                                               *)
(* Doubles are modelled as integers in tenths (5.2 is 52) plus the three   *)
(* non-finite values NaN, +inf and -inf; periods are integer milliseconds. *)
(***************************************************************************)
EXTENDS Integers, Sequences, FiniteSets, TLC

VARIABLES
  \* ---- RTControllerListWrapper ----
  controllers_lists_,                  \* the two generations of the list
  updated_controllers_index_,          \* index of the most updated list
  used_by_realtime_controllers_index_, \* index used by the rt thread, -1 at first
  controllers_lock_,                   \* owner of the recursive mutex, 0 when free
  wpc,                                 \* position of every non-rt thread
  free_controllers_list,               \* get_unused_list's local, per thread
  wait_index,                          \* argument of wait_until_rt_not_using
  unused_ref,                          \* the list get_unused_list returned, per thread
  rt_ref,                              \* the list last returned to the rt thread
  published_ref,                       \* the list handed to the last switch_updated_list
  published_list,                      \* ... and its contents at that moment
  \* ---- GenericSystem ----
  status_,                             \* hardware_interface::status
  info_,                               \* the HardwareInfo kept by configure_default
  command_propagation_disabled_,
  position_state_following_offset_,
  custom_interface_with_following_offset_,
  index_custom_interface_with_following_offset_,
  joint_commands_, joint_states_,      \* [standard interface][joint]
  joint_pos_commands_old_,
  mimic_joints_,
  other_interfaces_,
  other_commands_, other_states_,      \* [other interface][joint]
  start_modes_, stop_modes_,
  position_controller_running_, velocity_controller_running_,
  begin,                               \* time of the last read, in clock ticks
  period_,                             \* elapsed time of the last read, in ms
  ret_val,                             \* what the last prepare_command_mode_switch returned
  named_joints,                        \* the joints its start_interfaces named
  named_modes,                         \* the control modes its start_interfaces named
  \* ---- ControllerManager, switching ----
  running,                             \* the controllers whose state is running
  claimed_interfaces,                  \* <<controller, command interface>> claims held
  start_request_, stop_request_,       \* the accepted start and stop sets
  switch_params_,                      \* do_switch, strictness, start_asap
  phase,                               \* state of the switch orchestrator
  switch_ret,                          \* what the last switch_controller returned
  stop_hooks, start_hooks,             \* controllers whose hook this request has called
  rejected,                            \* the request just rejected: its strictness,
                                       \* whether it named a controller that is not loaded
  \* ---- GenericSystem, sensors and exported handles ----
  fake_sensor_command_interfaces_,
  sensor_interfaces_,                  \* names of the sensor interfaces
  sensor_fake_commands_, sensor_states_,  \* [sensor interface][column]
  exported_state_interfaces,           \* what export_state_interfaces returned
  exported_command_interfaces,         \* what export_command_interfaces returned
  export_ret                           \* how the last export call ended

bufvars == <<controllers_lists_, updated_controllers_index_,
             used_by_realtime_controllers_index_, controllers_lock_, wpc,
             free_controllers_list, wait_index, unused_ref, rt_ref,
             published_ref, published_list>>

hwvars == <<status_, info_, command_propagation_disabled_,
            position_state_following_offset_,
            custom_interface_with_following_offset_,
            index_custom_interface_with_following_offset_,
            joint_commands_, joint_states_, joint_pos_commands_old_,
            mimic_joints_, other_interfaces_, other_commands_, other_states_,
            start_modes_, stop_modes_, position_controller_running_,
            velocity_controller_running_, begin, period_, ret_val,
            named_joints, named_modes>>

swvars == <<running, claimed_interfaces, start_request_, stop_request_,
            switch_params_, phase, switch_ret, stop_hooks, start_hooks,
            rejected>>

expvars == <<fake_sensor_command_interfaces_, sensor_interfaces_,
             sensor_fake_commands_, sensor_states_, exported_state_interfaces,
             exported_command_interfaces, export_ret>>

vars == <<bufvars, hwvars, swvars, expvars>>

-----------------------------------------------------------------------------
(* Bounds *)
NumWriters == 2
NumControllers == 2
MaxStartLen == 2        \* longest start_interfaces list handed to prepare
MaxAbs == 6             \* largest |position| (in tenths) a read may produce
MaxTime == 2            \* the clock stops after this many ticks
MaxRequest == 2         \* most names in the two lists of one switch request

Writers == 1..NumWriters
Controllers == 1..NumControllers
NoList == -1

-----------------------------------------------------------------------------
(* RTControllerListWrapper *)

\* The mutant of get_other_list: the same index comes back.
get_other_list_same(index) == index

\* get the list not pointed by index
get_other_list(index) == (index + 1) % 2

Has(list, c) == \E i \in 1..Len(list) : list[i] = c

Without(list, c) == SelectSeq(list, LAMBDA x : x # c)

InitBuf ==
  /\ controllers_lists_ = [i \in 0..1 |-> <<>>]
  /\ updated_controllers_index_ = 0
  /\ used_by_realtime_controllers_index_ = -1
  /\ controllers_lock_ = 0
  /\ wpc = [w \in Writers |-> "idle"]
  /\ free_controllers_list = [w \in Writers |-> NoList]
  /\ wait_index = [w \in Writers |-> NoList]
  /\ unused_ref = [w \in Writers |-> NoList]
  /\ rt_ref = NoList
  /\ published_ref = NoList
  /\ published_list = <<>>

\* The mutant of the rt accessor: it takes controllers_lock_ like a writer.
update_and_get_used_by_rt_list_locking ==
  /\ controllers_lock_ = 0
  /\ used_by_realtime_controllers_index_' = updated_controllers_index_
  /\ rt_ref' = used_by_realtime_controllers_index_'
  /\ UNCHANGED <<hwvars, swvars, expvars>>
  /\ UNCHANGED <<controllers_lists_, updated_controllers_index_, controllers_lock_,
                 wpc, free_controllers_list, wait_index, unused_ref,
                 published_ref, published_list>>

\* rt thread: makes the "updated" list the "used by rt" list and returns it.
update_and_get_used_by_rt_list ==
  /\ used_by_realtime_controllers_index_' = updated_controllers_index_
  /\ rt_ref' = used_by_realtime_controllers_index_'
  /\ UNCHANGED <<hwvars, swvars, expvars>>
  /\ UNCHANGED <<controllers_lists_, updated_controllers_index_, controllers_lock_,
                 wpc, free_controllers_list, wait_index, unused_ref,
                 published_ref, published_list>>

\* std::lock_guard<std::recursive_mutex> guard(controllers_lock_)
AcquireLock(w) ==
  /\ wpc[w] = "idle"
  /\ controllers_lock_ = 0
  /\ controllers_lock_' = w
  /\ wpc' = [wpc EXCEPT ![w] = "locked"]
  /\ UNCHANGED <<hwvars, swvars, expvars>>
  /\ UNCHANGED <<controllers_lists_, updated_controllers_index_,
                 used_by_realtime_controllers_index_, free_controllers_list,
                 wait_index, unused_ref, rt_ref, published_ref, published_list>>

\* the guard goes out of scope; an unpublished write view is dropped
ReleaseLock(w) ==
  /\ wpc[w] \in {"locked", "has_list", "switched"}
  /\ controllers_lock_ = w
  /\ controllers_lock_' = 0
  /\ wpc' = [wpc EXCEPT ![w] = "idle"]
  /\ unused_ref' = [unused_ref EXCEPT ![w] = NoList]
  /\ UNCHANGED <<hwvars, swvars, expvars>>
  /\ UNCHANGED <<controllers_lists_, updated_controllers_index_,
                 used_by_realtime_controllers_index_, free_controllers_list,
                 wait_index, rt_ref, published_ref, published_list>>

\* get_unused_list, up to its wait: the index of the outdated list
get_unused_list(w) ==
  /\ wpc[w] \in {"locked", "switched"}
  /\ controllers_lock_ = w
  /\ free_controllers_list' =
       [free_controllers_list EXCEPT ![w] = get_other_list(updated_controllers_index_)]
  /\ wait_index' = [wait_index EXCEPT ![w] = free_controllers_list'[w]]
  /\ wpc' = [wpc EXCEPT ![w] = "unused_wait"]
  /\ UNCHANGED <<hwvars, swvars, expvars>>
  /\ UNCHANGED <<controllers_lists_, updated_controllers_index_,
                 used_by_realtime_controllers_index_, controllers_lock_,
                 unused_ref, rt_ref, published_ref, published_list>>

\* wait_until_rt_not_using: one test of the loop condition
wait_until_rt_not_using(w) ==
  /\ wpc[w] \in {"unused_wait", "switch_wait"}
  /\ IF used_by_realtime_controllers_index_ = wait_index[w]
       THEN /\ wpc' = [wpc EXCEPT ![w] =
                         IF wpc[w] = "unused_wait" THEN "unused_sleep" ELSE "switch_sleep"]
            /\ UNCHANGED unused_ref
       ELSE IF wpc[w] = "unused_wait"
         THEN /\ wpc' = [wpc EXCEPT ![w] = "has_list"]
              /\ unused_ref' = [unused_ref EXCEPT ![w] = free_controllers_list[w]]
         ELSE /\ wpc' = [wpc EXCEPT ![w] = "switched"]
              /\ UNCHANGED unused_ref
  /\ UNCHANGED <<hwvars, swvars, expvars>>
  /\ UNCHANGED <<controllers_lists_, updated_controllers_index_,
                 used_by_realtime_controllers_index_, controllers_lock_,
                 free_controllers_list, wait_index, rt_ref, published_ref,
                 published_list>>

\* std::this_thread::sleep_for(sleep_delay), then the loop tests again
sleep_for(w) ==
  /\ wpc[w] \in {"unused_sleep", "switch_sleep"}
  /\ wpc' = [wpc EXCEPT ![w] =
               IF wpc[w] = "unused_sleep" THEN "unused_wait" ELSE "switch_wait"]
  /\ UNCHANGED <<hwvars, swvars, expvars>>
  /\ UNCHANGED <<controllers_lists_, updated_controllers_index_,
                 used_by_realtime_controllers_index_, controllers_lock_,
                 free_controllers_list, wait_index, unused_ref, rt_ref,
                 published_ref, published_list>>

\* one edit of the write view: copy the updated list, add, remove or clear
EditList(w) ==
  /\ wpc[w] = "has_list"
  /\ controllers_lock_ = w
  /\ \E new \in
        {controllers_lists_[updated_controllers_index_], <<>>}
        \cup {Append(controllers_lists_[unused_ref[w]], c) :
                c \in {x \in Controllers : ~Has(controllers_lists_[unused_ref[w]], x)}}
        \cup {Without(controllers_lists_[unused_ref[w]], c) : c \in Controllers} :
       /\ new # controllers_lists_[unused_ref[w]]
       /\ controllers_lists_' = [controllers_lists_ EXCEPT ![unused_ref[w]] = new]
  /\ UNCHANGED <<hwvars, swvars, expvars>>
  /\ UNCHANGED <<updated_controllers_index_, used_by_realtime_controllers_index_,
                 controllers_lock_, wpc, free_controllers_list, wait_index,
                 unused_ref, rt_ref, published_ref, published_list>>

\* The mutant of switch_updated_list: the indices are not switched.
switch_updated_list_noflip(w) ==
  /\ wpc[w] = "has_list"
  /\ controllers_lock_ = w
  /\ updated_controllers_index_' = updated_controllers_index_
  /\ wait_index' = [wait_index EXCEPT ![w] = updated_controllers_index_]
  /\ wpc' = [wpc EXCEPT ![w] = "switch_wait"]
  /\ published_ref' = unused_ref[w]
  /\ published_list' = controllers_lists_[unused_ref[w]]
  /\ unused_ref' = [unused_ref EXCEPT ![w] = NoList]
  /\ UNCHANGED <<hwvars, swvars, expvars>>
  /\ UNCHANGED <<controllers_lists_, used_by_realtime_controllers_index_,
                 controllers_lock_, free_controllers_list, rt_ref>>

\* switch_updated_list, up to its wait: the outdated list becomes the updated one
switch_updated_list(w) ==
  /\ wpc[w] = "has_list"
  /\ controllers_lock_ = w
  /\ updated_controllers_index_' = get_other_list(updated_controllers_index_)
  /\ wait_index' = [wait_index EXCEPT ![w] = updated_controllers_index_]
  /\ wpc' = [wpc EXCEPT ![w] = "switch_wait"]
  /\ published_ref' = unused_ref[w]
  /\ published_list' = controllers_lists_[unused_ref[w]]
  /\ unused_ref' = [unused_ref EXCEPT ![w] = NoList]
  /\ UNCHANGED <<hwvars, swvars, expvars>>
  /\ UNCHANGED <<controllers_lists_, used_by_realtime_controllers_index_,
                 controllers_lock_, free_controllers_list, rt_ref>>

-----------------------------------------------------------------------------
(* double: a finite value in tenths, NaN, or an infinity *)

NaN == <<"nan", 0>>
PInf == <<"inf", 1>>
NInf == <<"inf", -1>>
D(n) == <<"num", n>>

isnan(x) == x[1] = "nan"
IsNum(x) == x[1] = "num"
Sign(n) == IF n > 0 THEN 1 ELSE IF n < 0 THEN -1 ELSE 0
Abs(n) == IF n < 0 THEN -n ELSE n
Inf(s) == IF s > 0 THEN PInf ELSE NInf

\* integer quotient rounded towards zero
Quot(n, d) == Sign(n) * Sign(d) * (Abs(n) \div Abs(d))

Neg(a) == IF isnan(a) THEN NaN ELSE IF IsNum(a) THEN D(-a[2]) ELSE Inf(-a[2])

\* a + b
Add(a, b) ==
  IF isnan(a) \/ isnan(b) THEN NaN
  ELSE IF IsNum(a) /\ IsNum(b) THEN D(a[2] + b[2])
  ELSE IF IsNum(a) THEN b
  ELSE IF IsNum(b) THEN a
  ELSE IF a = b THEN a ELSE NaN

\* a - b
Sub(a, b) == Add(a, Neg(b))

\* m * a, m a finite multiplier (a whole number)
Times(m, a) ==
  IF isnan(a) THEN NaN
  ELSE IF IsNum(a) THEN D(m * a[2])
  ELSE IF m = 0 THEN NaN ELSE Inf(Sign(m) * a[2])

\* a * period_, period_ = ms / 1000.0 seconds
TimesPeriod(a, ms) ==
  IF isnan(a) THEN NaN
  ELSE IF IsNum(a) THEN D(Quot(a[2] * ms, 1000))
  ELSE IF ms = 0 THEN NaN ELSE Inf(Sign(ms) * a[2])

\* a / period_, period_ = ms / 1000.0 seconds (+0.0 when ms = 0)
OverPeriod(a, ms) ==
  IF isnan(a) THEN NaN
  ELSE IF ms = 0
    THEN (IF IsNum(a) THEN (IF a[2] = 0 THEN NaN ELSE Inf(a[2])) ELSE a)
    ELSE IF IsNum(a) THEN D(Quot(a[2] * 1000, ms)) ELSE Inf(Sign(ms) * a[2])

-----------------------------------------------------------------------------
(* hardware_interface::HardwareInfo: the descriptions configure is given *)

HW_IF_POSITION == "position"
HW_IF_VELOCITY == "velocity"
HW_IF_ACCELERATION == "acceleration"
HW_IF_EFFORT == "effort"

\* a std::vector as a function on 0..size-1
Vec(seq) == [i \in 0..(Len(seq) - 1) |-> seq[i + 1]]
Size(v) == Cardinality(DOMAIN v)
Idx(v) == DOMAIN v
EmptyVec == Vec(<<>>)

standard_interfaces_ ==
  Vec(<<HW_IF_POSITION, HW_IF_VELOCITY, HW_IF_ACCELERATION, HW_IF_EFFORT>>)
POSITION_INTERFACE_INDEX == 0
VELOCITY_INTERFACE_INDEX == 1

\* std::numeric_limits<size_t>::max(): no index of other_interfaces_
NoIndex == -1

\* a parameter map with no entry
NoParams == [k \in {} |-> ""]

\* one joint of the description
Joint(name, parameters, command_interfaces, state_interfaces) ==
  [name |-> name, parameters |-> parameters,
   command_interfaces |-> command_interfaces, state_interfaces |-> state_interfaces]

PosVel == <<HW_IF_POSITION, HW_IF_VELOCITY>>
PosVelLoad == <<HW_IF_POSITION, HW_IF_VELOCITY, "load">>

\* per-joint parameter maps of the descriptions
InitialPosition == (<<"initial_", HW_IF_POSITION>> :> D(2))
Mimic(name) == (<<"mimic">> :> name)
Multiplier(m) == (<<"multiplier">> :> m)

\* hardware_parameters of the descriptions
DisableCommands == (<<"disable_commands">> :> "true")
Offset(d) == (<<"position_state_following_offset">> :> d)
Custom(name) == (<<"custom_interface_with_following_offset">> :> name)

\* a description of two joints: J1 with interfaces ifs1 (command and state), J2
\* with command interfaces cmd2 and the position and velocity state interfaces
Info(p1, ifs1, p2, cmd2, hp) ==
  [joints |-> Vec(<<Joint("J1", p1, ifs1, ifs1), Joint("J2", p2, cmd2, PosVel)>>),
   sensors |-> EmptyVec, hardware_parameters |-> hp]

\* the descriptions of the simulation-step specification
Infos ==
  {Info(InitialPosition, PosVel, NoParams, <<>>, NoParams),
   Info(NoParams, PosVel, NoParams, <<>>, DisableCommands),
   Info(NoParams, PosVel, NoParams, <<>>, Offset(D(3))),
   Info(NoParams, PosVelLoad, NoParams, <<>>, Offset(D(3)) @@ Custom("load")),
   Info(NoParams, PosVel, NoParams, <<>>, Offset(D(3)) @@ Custom("ghost")),
   Info(InitialPosition, PosVel, Mimic("J1") @@ Multiplier(0 - 1), <<>>, NoParams),
   Info(NoParams, PosVel, Mimic("J9"), <<>>, NoParams)}

\* a description of three joints for the mimic chains: J1 and J3 with command
\* interfaces cmd1 and cmd3, J2 with none
Info3(p1, cmd1, p2, p3, cmd3) ==
  [joints |-> Vec(<<Joint("J1", p1, cmd1, PosVel), Joint("J2", p2, <<>>, PosVel),
                    Joint("J3", p3, cmd3, PosVel)>>),
   sensors |-> EmptyVec, hardware_parameters |-> NoParams]

\* the descriptions of the mimic specification: J3 follows J2 follows J1, and
\* J1 follows J2 follows J3
MimicInfos ==
  {Info3(InitialPosition, PosVel, Mimic("J1") @@ Multiplier(0 - 1),
         Mimic("J2") @@ Multiplier(0 - 1), <<>>),
   Info3(Mimic("J2") @@ Multiplier(0 - 1), <<>>, Mimic("J3") @@ Multiplier(0 - 1),
         InitialPosition, PosVel)}

\* the descriptions of the configuration specification: every combination of
\* the joints' parameters, their interface lists and the hardware parameters
InitialLoad == (<<"initial_", "load">> :> D(5))
ConfInfos ==
  {Info(p1, ifs1, p2, cmd2, hp) :
     p1 \in {NoParams, InitialPosition, InitialLoad, Mimic("J2"), Mimic("J9")},
     ifs1 \in {PosVel, PosVelLoad, <<HW_IF_POSITION>>},
     p2 \in {NoParams, InitialPosition, Mimic("J1") @@ Multiplier(0 - 1), Mimic("J9")},
     cmd2 \in {<<>>, <<"load">>},
     hp \in {NoParams, DisableCommands, Offset(D(3)) @@ Custom("load")}}

\* the descriptions of the mode-gate specification
GateInfos ==
  {Info(InitialPosition, PosVel, NoParams, PosVel, NoParams),
   Info(NoParams, PosVel, Mimic("J1") @@ Multiplier(0 - 1), PosVel, DisableCommands)}

NoInfo == [joints |-> EmptyVec, sensors |-> EmptyVec, hardware_parameters |-> NoParams]

\* what the controllers write through their command handles, and the clock
CommandValues ==
  (HW_IF_POSITION :> {D(4)}) @@ (HW_IF_VELOCITY :> {D(20)}) @@ ("load" :> {D(5)})
\* the clock: one tick is TickMs milliseconds; a read comes 0 or 1 tick later
TickMs == 100
Periods == {0, 1}

-----------------------------------------------------------------------------
(* GenericSystem::configure *)

find(v, x) == IF \E i \in Idx(v) : v[i] = x
                THEN CHOOSE i \in Idx(v) : v[i] = x /\ \A k \in Idx(v) : v[k] = x => i <= k
                ELSE Size(v)

push_back(v, x) == [i \in 0..Size(v) |-> IF i = Size(v) THEN x ELSE v[i]]

\* it->second == "true" || it->second == "True"
parse_true(str) == str = "true" \/ str = "True"

\* initialize_storage_vectors: NaN everywhere, then the joints' initial_<interface>
initialize_storage_vectors(info, interfaces) ==
  [commands |-> [i \in Idx(interfaces) |-> [j \in Idx(info.joints) |-> NaN]],
   states |-> [i \in Idx(interfaces) |->
                [j \in Idx(info.joints) |->
                   IF <<"initial_", interfaces[i]>> \in DOMAIN info.joints[j].parameters
                     THEN info.joints[j].parameters[<<"initial_", interfaces[i]>>]
                     ELSE NaN]]]

\* "set all values without initial values to 0"
ZeroNaNStates(states) ==
  [i \in DOMAIN states |-> [j \in DOMAIN states[i] |->
     IF isnan(states[i][j]) THEN D(0) ELSE states[i][j]]]

\* "joint velocity commands to zero"
ZeroVelocityCommands(commands) ==
  [commands EXCEPT ![VELOCITY_INTERFACE_INDEX] =
     [j \in DOMAIN commands[VELOCITY_INTERFACE_INDEX] |-> D(0)]]

\* index of the joint named n, or the number of joints (std::find_if)
find_joint(info, n) ==
  IF \E i \in Idx(info.joints) : info.joints[i].name = n
    THEN CHOOSE i \in Idx(info.joints) :
           /\ info.joints[i].name = n
           /\ \A k \in Idx(info.joints) : info.joints[k].name = n => i <= k
    ELSE Size(info.joints)

HasMimic(info, i) == <<"mimic">> \in DOMAIN info.joints[i].parameters

\* a faulty variant: a missing mimicked joint is not noticed
FirstDangling_unchecked(info) == Size(info.joints)

\* the first joint whose mimicked joint is not found, or the number of joints
FirstDangling(info) ==
  LET bad == {i \in Idx(info.joints) :
                /\ HasMimic(info, i)
                /\ find_joint(info, info.joints[i].parameters[<<"mimic">>])
                     = Size(info.joints)}
  IN IF bad = {} THEN Size(info.joints)
     ELSE CHOOSE i \in bad : \A k \in bad : i <= k

MimicJoint(info, i) ==
  [joint_index |-> i,
   mimicked_joint_index |-> find_joint(info, info.joints[i].parameters[<<"mimic">>]),
   multiplier |-> IF <<"multiplier">> \in DOMAIN info.joints[i].parameters
                    THEN info.joints[i].parameters[<<"multiplier">>] ELSE 1]

\* "Search for mimic joints": the joints before index n, in order
RECURSIVE SearchMimic(_, _)
SearchMimic(info, n) ==
  IF n = 0 THEN EmptyVec
  ELSE IF HasMimic(info, n - 1)
    THEN push_back(SearchMimic(info, n - 1), MimicJoint(info, n - 1))
    ELSE SearchMimic(info, n - 1)

\* a faulty variant: a non-standard name is appended each time it is met
RECURSIVE AddOther_duplicating(_, _, _)
AddOther_duplicating(others, names, k) ==
  IF k > Len(names) THEN others
  ELSE AddOther_duplicating(
         IF find(standard_interfaces_, names[k]) = Size(standard_interfaces_)
           THEN push_back(others, names[k]) ELSE others,
         names, k + 1)

\* "search for non-standard joint interfaces": append the new names of a list
RECURSIVE AddOther(_, _, _)
AddOther(others, names, k) ==
  IF k > Len(names) THEN others
  ELSE AddOther(
         IF find(standard_interfaces_, names[k]) = Size(standard_interfaces_)
            /\ find(others, names[k]) = Size(others)
           THEN push_back(others, names[k]) ELSE others,
         names, k + 1)

\* the sensors' state interface names, each once, in order of appearance
RECURSIVE AddSensor(_, _, _)
AddSensor(names_, names, k) ==
  IF k > Len(names) THEN names_
  ELSE AddSensor(IF find(names_, names[k]) = Size(names_)
                   THEN push_back(names_, names[k]) ELSE names_,
                 names, k + 1)

RECURSIVE SearchSensor(_, _)
SearchSensor(info, n) ==
  IF n = 0 THEN EmptyVec
  ELSE AddSensor(SearchSensor(info, n - 1), info.sensors[n - 1].state_interfaces, 1)

RECURSIVE SearchOther(_, _)
SearchOther(info, n) ==
  IF n = 0 THEN EmptyVec
  ELSE AddOther(AddOther(SearchOther(info, n - 1),
                         info.joints[n - 1].command_interfaces, 1),
                info.joints[n - 1].state_interfaces, 1)

InitHW ==
  /\ status_ = "UNKNOWN"
  /\ info_ = NoInfo
  /\ command_propagation_disabled_ = FALSE
  /\ position_state_following_offset_ = D(0)
  /\ custom_interface_with_following_offset_ = ""
  /\ index_custom_interface_with_following_offset_ = NoIndex
  /\ joint_commands_ = EmptyVec
  /\ joint_states_ = EmptyVec
  /\ joint_pos_commands_old_ = EmptyVec
  /\ mimic_joints_ = EmptyVec
  /\ other_interfaces_ = EmptyVec
  /\ other_commands_ = EmptyVec
  /\ other_states_ = EmptyVec
  /\ start_modes_ = <<>>
  /\ stop_modes_ = <<>>
  /\ position_controller_running_ = FALSE
  /\ velocity_controller_running_ = FALSE
  /\ begin = 0
  /\ period_ = 0
  /\ ret_val = "NONE"
  /\ named_joints = {}
  /\ named_modes = {}

InitExport ==
  /\ fake_sensor_command_interfaces_ = FALSE
  /\ sensor_interfaces_ = EmptyVec
  /\ sensor_fake_commands_ = EmptyVec
  /\ sensor_states_ = EmptyVec
  /\ exported_state_interfaces = <<>>
  /\ exported_command_interfaces = <<>>
  /\ export_ret = "NONE"

\* configure: `disabled` is what the lookup of "disable_commands" yields.  When the
\* parameter is absent the code compares an iterator of info_ with info's end():
\* the comparison is undefined, and either takes the else branch (FALSE) or the
\* call dereferences the end iterator and does not return.
configure(info, returns) ==
  LET hp == info.hardware_parameters
      std == initialize_storage_vectors(info, standard_interfaces_)
      states0 == ZeroNaNStates(std.states)
      has_offset == <<"position_state_following_offset">> \in DOMAIN hp
      custom == IF has_offset /\ <<"custom_interface_with_following_offset">> \in DOMAIN hp
                  THEN hp[<<"custom_interface_with_following_offset">>] ELSE ""
      dangling == FirstDangling(info)
      others == SearchOther(info, Size(info.joints))
      oth == initialize_storage_vectors(info, others)
      sensor_names == SearchSensor(info, Size(info.sensors))
      sen == initialize_storage_vectors(info, sensor_names)
  IN
  /\ status_ = "UNKNOWN"
  /\ info_ = NoInfo
  /\ info_' = info
  /\ UNCHANGED <<begin, period_, ret_val, named_joints, named_modes>>
  /\ fake_sensor_command_interfaces_' =
       IF <<"fake_sensor_commands">> \in DOMAIN hp
         THEN parse_true(hp[<<"fake_sensor_commands">>]) ELSE FALSE
  /\ IF ~returns
       THEN \* the end iterator is dereferenced at line 56
            /\ <<"disable_commands">> \notin DOMAIN hp
            /\ UNCHANGED <<status_, command_propagation_disabled_,
                           position_state_following_offset_,
                           custom_interface_with_following_offset_,
                           index_custom_interface_with_following_offset_,
                           joint_commands_, joint_states_, joint_pos_commands_old_,
                           mimic_joints_, other_interfaces_, other_commands_,
                           other_states_, start_modes_, stop_modes_,
                           position_controller_running_,
                           velocity_controller_running_, sensor_interfaces_,
                           sensor_fake_commands_, sensor_states_>>
       ELSE
         /\ command_propagation_disabled_' =
              IF <<"disable_commands">> \in DOMAIN hp
                THEN parse_true(hp[<<"disable_commands">>]) ELSE FALSE
         /\ position_state_following_offset_' =
              IF has_offset THEN hp[<<"position_state_following_offset">>] ELSE D(0)
         /\ custom_interface_with_following_offset_' = custom
         /\ joint_states_' = states0
         /\ joint_pos_commands_old_' = std.commands[POSITION_INTERFACE_INDEX]
         /\ joint_commands_' = ZeroVelocityCommands(std.commands)
         /\ IF dangling < Size(info.joints)
              THEN \* throw std::runtime_error("Mimicked joint ... not found")
                   /\ mimic_joints_' = SearchMimic(info, dangling)
                   /\ index_custom_interface_with_following_offset_' = NoIndex
                   /\ UNCHANGED <<status_, other_interfaces_, other_commands_,
                                  other_states_, start_modes_, stop_modes_,
                                  position_controller_running_,
                                  velocity_controller_running_, sensor_interfaces_,
                                  sensor_fake_commands_, sensor_states_>>
              ELSE /\ mimic_joints_' = SearchMimic(info, Size(info.joints))
                   /\ sensor_interfaces_' = sensor_names
                   /\ sensor_fake_commands_' = sen.commands
                   /\ sensor_states_' = sen.states
                   /\ other_interfaces_' = others
                   /\ other_commands_' = oth.commands
                   /\ other_states_' = oth.states
                   /\ index_custom_interface_with_following_offset_' =
                        IF custom # "" /\ find(others, custom) # Size(others)
                          THEN find(others, custom) ELSE NoIndex
                   /\ stop_modes_' = [i \in 1..6 |-> "NONE"]
                   /\ start_modes_' = [i \in 1..6 |-> HW_IF_POSITION]
                   /\ position_controller_running_' = FALSE
                   /\ velocity_controller_running_' = FALSE
                   /\ status_' = "CONFIGURED"
  /\ UNCHANGED <<exported_state_interfaces, exported_command_interfaces, export_ret>>
  /\ UNCHANGED <<bufvars, swvars>>

-----------------------------------------------------------------------------
(* GenericSystem::prepare_command_mode_switch *)

\* an interface key "<joint>/<interface>" as the pair <<joint, interface>>
Key(name, interface) == <<name, interface>>

\* what one key appends to start_modes_: the inner loop over the joints
RECURSIVE StartOfKey(_, _, _)
StartOfKey(info, key, n) ==
  IF n = 0 THEN <<>>
  ELSE StartOfKey(info, key, n - 1)
       \o (IF key = Key(info.joints[n - 1].name, HW_IF_POSITION)
             THEN <<HW_IF_POSITION>> ELSE <<>>)
       \o (IF key = Key(info.joints[n - 1].name, HW_IF_VELOCITY)
             THEN <<HW_IF_VELOCITY>> ELSE <<>>)

RECURSIVE StartModes(_, _, _)
StartModes(info, keys, k) ==
  IF k = 0 THEN <<>>
  ELSE StartModes(info, keys, k - 1) \o StartOfKey(info, keys[k], Size(info.joints))

RECURSIVE StopOfKey(_, _, _)
StopOfKey(info, key, n) ==
  IF n = 0 THEN <<>>
  ELSE StopOfKey(info, key, n - 1)
       \o (IF key = Key(info.joints[n - 1].name, HW_IF_POSITION)
             THEN <<"STOP_POSITION">> ELSE <<>>)
       \o (IF key = Key(info.joints[n - 1].name, HW_IF_VELOCITY)
             THEN <<"STOP_VELOCITY">> ELSE <<>>)

RECURSIVE StopModes(_, _, _)
StopModes(info, keys, k) ==
  IF k = 0 THEN <<>>
  ELSE StopModes(info, keys, k - 1) \o StopOfKey(info, keys[k], Size(info.joints))

\* a faulty variant: the modes are never compared with each other
std_equal_shifted_lax(modes) == TRUE

\* std::equal(modes.begin() + 1, modes.end(), modes.begin())
std_equal_shifted(modes) == \A i \in 1..(Len(modes) - 1) : modes[i + 1] = modes[i]

\* the value prepare_command_mode_switch returns for the modes it collected
PrepareResult(starts, stops, njoints) ==
  IF \/ (Len(starts) # 0 /\ Len(starts) # njoints)
     \/ (Len(starts) # 0 /\ ~std_equal_shifted(starts))
     \/ (Len(stops) # 0 /\ (Len(stops) # njoints \/ ~std_equal_shifted(stops)))
    THEN "ERROR" ELSE "OK"

\* the joints of the group for which a start list names position or velocity
NamedJoints(info, start_interfaces) ==
  {info.joints[i].name : i \in
     {i \in Idx(info.joints) : \E k \in 1..Len(start_interfaces) :
        \/ start_interfaces[k] = Key(info.joints[i].name, HW_IF_POSITION)
        \/ start_interfaces[k] = Key(info.joints[i].name, HW_IF_VELOCITY)}}

\* the control modes a start list names for joints of the group
NamedModes(info, start_interfaces) ==
  {m \in {HW_IF_POSITION, HW_IF_VELOCITY} :
     \E i \in Idx(info.joints), k \in 1..Len(start_interfaces) :
        start_interfaces[k] = Key(info.joints[i].name, m)}

prepare_command_mode_switch(start_interfaces, stop_interfaces) ==
  /\ status_ = "CONFIGURED"
  /\ named_joints' = NamedJoints(info_, start_interfaces)
  /\ named_modes' = NamedModes(info_, start_interfaces)
  /\ start_modes_' = StartModes(info_, start_interfaces, Len(start_interfaces))
  /\ stop_modes_' = StopModes(info_, stop_interfaces, Len(stop_interfaces))
  /\ ret_val' = PrepareResult(start_modes_', stop_modes_', Size(info_.joints))
  /\ UNCHANGED <<status_, info_, command_propagation_disabled_,
                 position_state_following_offset_,
                 custom_interface_with_following_offset_,
                 index_custom_interface_with_following_offset_,
                 joint_commands_, joint_states_, joint_pos_commands_old_,
                 mimic_joints_, other_interfaces_, other_commands_, other_states_,
                 position_controller_running_, velocity_controller_running_,
                 begin, period_>>
  /\ UNCHANGED <<bufvars, swvars, expvars>>

-----------------------------------------------------------------------------
(* GenericSystem::perform_command_mode_switch *)

Contains(modes, m) == \E i \in 1..Len(modes) : modes[i] = m

\* a faulty variant: the two flags are not cleared before one of them is set
perform_command_mode_switch_sticky ==
  /\ status_ = "CONFIGURED"
  /\ IF Len(start_modes_) # 0 /\ Contains(start_modes_, HW_IF_POSITION)
       THEN /\ joint_commands_' =
                 [joint_commands_ EXCEPT ![POSITION_INTERFACE_INDEX] =
                    [i \in DOMAIN joint_commands_[POSITION_INTERFACE_INDEX] |->
                       joint_states_[POSITION_INTERFACE_INDEX][i]]]
            /\ position_controller_running_' = TRUE
            /\ UNCHANGED velocity_controller_running_
       ELSE IF Len(start_modes_) # 0 /\ Contains(start_modes_, HW_IF_VELOCITY)
         THEN /\ joint_commands_' =
                   [joint_commands_ EXCEPT ![VELOCITY_INTERFACE_INDEX] =
                      [i \in DOMAIN joint_commands_[VELOCITY_INTERFACE_INDEX] |-> D(0)]]
              /\ UNCHANGED position_controller_running_
              /\ velocity_controller_running_' = TRUE
         ELSE /\ UNCHANGED position_controller_running_
              /\ UNCHANGED velocity_controller_running_
              /\ UNCHANGED joint_commands_
  /\ UNCHANGED <<status_, info_, command_propagation_disabled_,
                 position_state_following_offset_,
                 custom_interface_with_following_offset_,
                 index_custom_interface_with_following_offset_,
                 joint_states_, joint_pos_commands_old_,
                 mimic_joints_, other_interfaces_, other_commands_, other_states_,
                 start_modes_, stop_modes_, begin, period_, ret_val,
                 named_joints, named_modes>>
  /\ UNCHANGED <<bufvars, swvars, expvars>>

\* a faulty variant: position mode is activated without seeding the commands
perform_command_mode_switch_unseeded ==
  /\ status_ = "CONFIGURED"
  /\ IF Len(start_modes_) # 0 /\ Contains(start_modes_, HW_IF_POSITION)
       THEN /\ position_controller_running_' = TRUE
            /\ velocity_controller_running_' = FALSE
            /\ UNCHANGED joint_commands_
       ELSE IF Len(start_modes_) # 0 /\ Contains(start_modes_, HW_IF_VELOCITY)
         THEN /\ joint_commands_' =
                   [joint_commands_ EXCEPT ![VELOCITY_INTERFACE_INDEX] =
                      [i \in DOMAIN joint_commands_[VELOCITY_INTERFACE_INDEX] |-> D(0)]]
              /\ position_controller_running_' = FALSE
              /\ velocity_controller_running_' = TRUE
         ELSE /\ position_controller_running_' = FALSE
              /\ velocity_controller_running_' = FALSE
              /\ UNCHANGED joint_commands_
  /\ UNCHANGED <<status_, info_, command_propagation_disabled_,
                 position_state_following_offset_,
                 custom_interface_with_following_offset_,
                 index_custom_interface_with_following_offset_,
                 joint_states_, joint_pos_commands_old_,
                 mimic_joints_, other_interfaces_, other_commands_, other_states_,
                 start_modes_, stop_modes_, begin, period_, ret_val,
                 named_joints, named_modes>>
  /\ UNCHANGED <<bufvars, swvars, expvars>>

perform_command_mode_switch ==
  /\ status_ = "CONFIGURED"
  /\ IF Len(start_modes_) # 0 /\ Contains(start_modes_, HW_IF_POSITION)
       THEN /\ joint_commands_' =
                 [joint_commands_ EXCEPT ![POSITION_INTERFACE_INDEX] =
                    [i \in DOMAIN joint_commands_[POSITION_INTERFACE_INDEX] |->
                       joint_states_[POSITION_INTERFACE_INDEX][i]]]
            /\ position_controller_running_' = TRUE
            /\ velocity_controller_running_' = FALSE
       ELSE IF Len(start_modes_) # 0 /\ Contains(start_modes_, HW_IF_VELOCITY)
         THEN /\ joint_commands_' =
                   [joint_commands_ EXCEPT ![VELOCITY_INTERFACE_INDEX] =
                      [i \in DOMAIN joint_commands_[VELOCITY_INTERFACE_INDEX] |-> D(0)]]
              /\ position_controller_running_' = FALSE
              /\ velocity_controller_running_' = TRUE
         ELSE /\ position_controller_running_' = FALSE
              /\ velocity_controller_running_' = FALSE
              /\ UNCHANGED joint_commands_
  /\ UNCHANGED <<status_, info_, command_propagation_disabled_,
                 position_state_following_offset_,
                 custom_interface_with_following_offset_,
                 index_custom_interface_with_following_offset_,
                 joint_states_, joint_pos_commands_old_,
                 mimic_joints_, other_interfaces_, other_commands_, other_states_,
                 start_modes_, stop_modes_, begin, period_, ret_val,
                 named_joints, named_modes>>
  /\ UNCHANGED <<bufvars, swvars, expvars>>

-----------------------------------------------------------------------------
(* GenericSystem::read *)

\* "apply offset to positions only": the first loop of read
PositionLoop(states, commands, old, ms) ==
  [i \in DOMAIN states |-> [j \in DOMAIN states[i] |->
     IF /\ ~isnan(commands[POSITION_INTERFACE_INDEX][j])
        /\ ~command_propagation_disabled_
        /\ position_controller_running_
       THEN IF i = POSITION_INTERFACE_INDEX
              THEN Add(commands[POSITION_INTERFACE_INDEX][j],
                       IF custom_interface_with_following_offset_ = ""
                         THEN position_state_following_offset_ ELSE D(0))
            ELSE IF i = VELOCITY_INTERFACE_INDEX /\ Size(standard_interfaces_) > 1
              THEN OverPeriod(Sub(commands[POSITION_INTERFACE_INDEX][j], old[j]), ms)
            ELSE states[i][j]
       ELSE states[i][j]]]

\* a faulty variant: the velocity loop ignores command_propagation_disabled_
VelocityActs_ungated(commands, j) ==
  /\ ~isnan(commands[VELOCITY_INTERFACE_INDEX][j])
  /\ velocity_controller_running_

\* does the velocity loop of read act on joint j
VelocityActs(commands, j) ==
  /\ ~isnan(commands[VELOCITY_INTERFACE_INDEX][j])
  /\ ~command_propagation_disabled_
  /\ velocity_controller_running_

\* "velocity": the states the second loop of read leaves
VelocityLoopStates(states, commands, ms) ==
  [i \in DOMAIN states |-> [j \in DOMAIN states[i] |->
     IF VelocityActs(commands, j)
       THEN IF i = POSITION_INTERFACE_INDEX
              THEN Add(states[POSITION_INTERFACE_INDEX][j],
                       TimesPeriod(commands[VELOCITY_INTERFACE_INDEX][j], ms))
            ELSE IF i = VELOCITY_INTERFACE_INDEX
              THEN commands[VELOCITY_INTERFACE_INDEX][j]
            ELSE states[i][j]
       ELSE states[i][j]]]

\* a faulty variant: the position commands are not resynchronised
VelocityLoopCommands_stale(states, commands) == commands

\* ... and the position commands it resynchronises (states: after the loop)
VelocityLoopCommands(states, commands) ==
  [commands EXCEPT ![POSITION_INTERFACE_INDEX] =
     [j \in DOMAIN commands[POSITION_INTERFACE_INDEX] |->
        IF VelocityActs(commands, j)
          THEN states[POSITION_INTERFACE_INDEX][j]
          ELSE commands[POSITION_INTERFACE_INDEX][j]]]

\* "do loopback on all other interfaces": rows 2 and up
Loopback(states, commands) ==
  [i \in DOMAIN states |-> [j \in DOMAIN states[i] |->
     IF i >= 2 /\ ~isnan(commands[i][j]) THEN commands[i][j] ELSE states[i][j]]]

\* one mimic joint applied to every row
ApplyMimic(states, mimic_joint) ==
  [i \in DOMAIN states |->
     [states[i] EXCEPT ![mimic_joint.joint_index] =
        Times(mimic_joint.multiplier, states[i][mimic_joint.mimicked_joint_index])]]

\* the loop over mimic_joints_, in order: the first n of them
RECURSIVE MimicLoop(_, _, _)
MimicLoop(states, mimics, n) ==
  IF n = 0 THEN states
  ELSE ApplyMimic(MimicLoop(states, mimics, n - 1), mimics[n - 1])

\* a faulty variant: the designated interface is looped back like the others
OtherLoop_unbound(ostates, ocommands, commands) ==
  [i \in DOMAIN ostates |-> [j \in DOMAIN ostates[i] |->
     IF ~isnan(ocommands[i][j]) THEN ocommands[i][j] ELSE ostates[i][j]]]

\* the loop over other_states_
OtherLoop(ostates, ocommands, commands) ==
  [i \in DOMAIN ostates |-> [j \in DOMAIN ostates[i] |->
     IF /\ i = index_custom_interface_with_following_offset_
        /\ ~isnan(commands[POSITION_INTERFACE_INDEX][j])
       THEN Add(commands[POSITION_INTERFACE_INDEX][j], position_state_following_offset_)
     ELSE IF ~isnan(ocommands[i][j]) THEN ocommands[i][j]
     ELSE ostates[i][j]]]

\* the state matrices when the loop over mimic_joints_ is done and the loop over
\* other_states_ has not begun
StatesAfterMimic(ticks) ==
  LET ms == TickMs * ticks
      st1 == PositionLoop(joint_states_, joint_commands_, joint_pos_commands_old_, ms)
      st2 == VelocityLoopStates(st1, joint_commands_, ms)
      cmd == VelocityLoopCommands(st2, joint_commands_)
      st3 == Loopback(st2, cmd)
  IN  [joint_states |-> MimicLoop(st3, mimic_joints_, Size(mimic_joints_)),
       other_states |-> other_states_]

\* the fake sensor commands are looped back to the sensor states
SensorLoop(sstates, scommands) ==
  [i \in DOMAIN sstates |-> [j \in DOMAIN sstates[i] |->
     IF ~isnan(scommands[i][j]) THEN scommands[i][j] ELSE sstates[i][j]]]

\* every finite position state and command lies within the model's range
InRange(states, commands) ==
  \A j \in DOMAIN states[POSITION_INTERFACE_INDEX] :
    /\ IsNum(states[POSITION_INTERFACE_INDEX][j]) =>
         Abs(states[POSITION_INTERFACE_INDEX][j][2]) <= MaxAbs
    /\ IsNum(commands[POSITION_INTERFACE_INDEX][j]) =>
         Abs(commands[POSITION_INTERFACE_INDEX][j][2]) <= MaxAbs

\* read, `ticks` clock ticks after the previous read (or after configure)
read(ticks) ==
  LET ms == TickMs * ticks
      st1 == PositionLoop(joint_states_, joint_commands_, joint_pos_commands_old_, ms)
      st2 == VelocityLoopStates(st1, joint_commands_, ms)
      cmd == VelocityLoopCommands(st2, joint_commands_)
      st3 == Loopback(st2, cmd)
      st4 == MimicLoop(st3, mimic_joints_, Size(mimic_joints_))
  IN
  /\ status_ = "CONFIGURED"
  /\ export_ret # "ABORTED"
  /\ begin + ticks <= MaxTime
  /\ begin' = begin + ticks
  /\ period_' = ms
  /\ UNCHANGED <<status_, info_, command_propagation_disabled_,
                 position_state_following_offset_,
                 custom_interface_with_following_offset_,
                 index_custom_interface_with_following_offset_,
                 mimic_joints_, other_interfaces_, other_commands_,
                 start_modes_, stop_modes_, position_controller_running_,
                 velocity_controller_running_, ret_val, named_joints, named_modes>>
  /\ UNCHANGED <<bufvars, swvars>>
  /\ sensor_states_' = IF fake_sensor_command_interfaces_
                         THEN SensorLoop(sensor_states_, sensor_fake_commands_)
                         ELSE sensor_states_
  /\ UNCHANGED <<fake_sensor_command_interfaces_, sensor_interfaces_,
                 sensor_fake_commands_, exported_state_interfaces,
                 exported_command_interfaces, export_ret>>
  /\ InRange(st4, cmd)
  /\ joint_states_' = st4
  /\ joint_commands_' = cmd
  /\ joint_pos_commands_old_' = cmd[POSITION_INTERFACE_INDEX]
  /\ other_states_' = OtherLoop(other_states_, other_commands_, cmd)

-----------------------------------------------------------------------------
(* a controller writing through a handle of export_command_interfaces *)

WriteCommand(j, interface, v) ==
  /\ status_ = "CONFIGURED"
  /\ j \in Idx(info_.joints)
  /\ \E k \in 1..Len(info_.joints[j].command_interfaces) :
        info_.joints[j].command_interfaces[k] = interface
  /\ IF find(standard_interfaces_, interface) # Size(standard_interfaces_)
       THEN /\ joint_commands_' =
                 [joint_commands_ EXCEPT ![find(standard_interfaces_, interface)][j] = v]
            /\ joint_commands_' # joint_commands_
            /\ UNCHANGED other_commands_
       ELSE /\ find(other_interfaces_, interface) # Size(other_interfaces_)
            /\ other_commands_' =
                 [other_commands_ EXCEPT ![find(other_interfaces_, interface)][j] = v]
            /\ other_commands_' # other_commands_
            /\ UNCHANGED joint_commands_
  /\ UNCHANGED <<status_, info_, command_propagation_disabled_,
                 position_state_following_offset_,
                 custom_interface_with_following_offset_,
                 index_custom_interface_with_following_offset_,
                 joint_states_, joint_pos_commands_old_,
                 mimic_joints_, other_interfaces_, other_states_,
                 start_modes_, stop_modes_, position_controller_running_,
                 velocity_controller_running_, begin, period_, ret_val,
            named_joints, named_modes>>
  /\ UNCHANGED <<bufvars, swvars, expvars>>

-----------------------------------------------------------------------------
(* GenericSystem::export_state_interfaces and export_command_interfaces *)

\* a handle: the component's name, the interface name and the address
\* &values[row][column], values being the name of the matrix
Handle(name, interface_name, values, row, column) ==
  [name |-> name, interface_name |-> interface_name, values |-> values,
   row |-> row, column |-> column]

\* get_interface: the handle it appends, or nothing when interface_list lacks
\* interface_name (it then returns false)
get_interface(name, interface_list, interface_name, vector_index, values) ==
  IF find(interface_list, interface_name) # Size(interface_list)
    THEN <<Handle(name, interface_name, values,
                  find(interface_list, interface_name), vector_index)>>
    ELSE <<>>

\* the handles of joint i for the first k names: the standard list, else the
\* "other" list
RECURSIVE JointHandles(_, _, _, _, _, _)
JointHandles(name, names, k, i, standard_values, other_values) ==
  IF k = 0 THEN <<>>
  ELSE JointHandles(name, names, k - 1, i, standard_values, other_values)
       \o (IF find(standard_interfaces_, names[k]) # Size(standard_interfaces_)
             THEN get_interface(name, standard_interfaces_, names[k], i, standard_values)
             ELSE get_interface(name, other_interfaces_, names[k], i, other_values))

\* the loop over the joints, for their state_interfaces or command_interfaces
RECURSIVE AllJointHandles(_, _, _, _)
AllJointHandles(n, field, standard_values, other_values) ==
  IF n = 0 THEN <<>>
  ELSE AllJointHandles(n - 1, field, standard_values, other_values)
       \o JointHandles(info_.joints[n - 1].name, info_.joints[n - 1][field],
                       Len(info_.joints[n - 1][field]), n - 1,
                       standard_values, other_values)

\* the handles of sensor i for the first k names of its state interfaces
RECURSIVE SensorHandles(_, _, _, _, _)
SensorHandles(name, names, k, i, values) ==
  IF k = 0 THEN <<>>
  ELSE SensorHandles(name, names, k - 1, i, values)
       \o get_interface(name, sensor_interfaces_, names[k], i, values)

\* the loop over the sensors: the vector index is the index of the sensor
RECURSIVE AllSensorHandles(_, _)
AllSensorHandles(n, values) ==
  IF n = 0 THEN <<>>
  ELSE AllSensorHandles(n - 1, values)
       \o SensorHandles(info_.sensors[n - 1].name, info_.sensors[n - 1].state_interfaces,
                        Len(info_.sensors[n - 1].state_interfaces), n - 1, values)

\* "Interface is not found in the standard nor other list": both get_interface
\* calls return false for an interface of a joint, or the one for a sensor does
JointNotFound(field) ==
  \E i \in Idx(info_.joints) : \E k \in 1..Len(info_.joints[i][field]) :
    /\ find(standard_interfaces_, info_.joints[i][field][k]) = Size(standard_interfaces_)
    /\ find(other_interfaces_, info_.joints[i][field][k]) = Size(other_interfaces_)

SensorNotFound ==
  \E i \in Idx(info_.sensors) : \E k \in 1..Len(info_.sensors[i].state_interfaces) :
    find(sensor_interfaces_, info_.sensors[i].state_interfaces[k]) = Size(sensor_interfaces_)

\* the matrix a handle points into
Matrix(values) ==
  CASE values = "joint_states_" -> joint_states_
    [] values = "joint_commands_" -> joint_commands_
    [] values = "other_states_" -> other_states_
    [] values = "other_commands_" -> other_commands_
    [] values = "sensor_states_" -> sensor_states_
    [] values = "sensor_fake_commands_" -> sensor_fake_commands_

\* the handle's cell exists: row < rows and column < columns of its matrix
InsideMatrix(h) ==
  /\ h.row \in DOMAIN Matrix(h.values)
  /\ h.column \in DOMAIN Matrix(h.values)[h.row]

\* values[j][vector_index] with vector_index past the row is undefined: the call
\* either forms the address past the row and hands it out, or (an index-checked
\* operator[]) does not return
export_state_interfaces(returns) ==
  LET handles == AllJointHandles(Size(info_.joints), "state_interfaces",
                                 "joint_states_", "other_states_")
                 \o AllSensorHandles(Size(info_.sensors), "sensor_states_")
  IN
  /\ status_ = "CONFIGURED"
  /\ export_ret # "ABORTED"
  /\ IF JointNotFound("state_interfaces") \/ SensorNotFound
       THEN \* throw std::runtime_error
            /\ export_ret' = "THROWN"
            /\ UNCHANGED exported_state_interfaces
       ELSE IF returns
         THEN /\ exported_state_interfaces' = handles
              /\ export_ret' = "OK"
         ELSE /\ \E k \in 1..Len(handles) : ~InsideMatrix(handles[k])
              /\ export_ret' = "ABORTED"
              /\ UNCHANGED exported_state_interfaces
  /\ UNCHANGED <<fake_sensor_command_interfaces_, sensor_interfaces_,
                 sensor_fake_commands_, sensor_states_, exported_command_interfaces>>
  /\ UNCHANGED <<bufvars, hwvars, swvars>>

export_command_interfaces(returns) ==
  LET handles == AllJointHandles(Size(info_.joints), "command_interfaces",
                                 "joint_commands_", "other_commands_")
                 \o (IF fake_sensor_command_interfaces_
                       THEN AllSensorHandles(Size(info_.sensors), "sensor_fake_commands_")
                       ELSE <<>>)
  IN
  /\ status_ = "CONFIGURED"
  /\ export_ret # "ABORTED"
  /\ IF \/ JointNotFound("command_interfaces")
        \/ (fake_sensor_command_interfaces_ /\ SensorNotFound)
       THEN \* throw std::runtime_error
            /\ export_ret' = "THROWN"
            /\ UNCHANGED exported_command_interfaces
       ELSE IF returns
         THEN /\ exported_command_interfaces' = handles
              /\ export_ret' = "OK"
         ELSE /\ \E k \in 1..Len(handles) : ~InsideMatrix(handles[k])
              /\ export_ret' = "ABORTED"
              /\ UNCHANGED exported_command_interfaces
  /\ UNCHANGED <<fake_sensor_command_interfaces_, sensor_interfaces_,
                 sensor_fake_commands_, sensor_states_, exported_state_interfaces>>
  /\ UNCHANGED <<bufvars, hwvars, swvars>>

\* a fake sensor command written through the k-th exported command handle, when
\* that handle points to a cell of sensor_fake_commands_
WriteSensorCommand(k, v) ==
  /\ status_ = "CONFIGURED"
  /\ export_ret # "ABORTED"
  /\ k \in 1..Len(exported_command_interfaces)
  /\ exported_command_interfaces[k].values = "sensor_fake_commands_"
  /\ InsideMatrix(exported_command_interfaces[k])
  /\ sensor_fake_commands_' =
       [sensor_fake_commands_ EXCEPT ![exported_command_interfaces[k].row]
                                       [exported_command_interfaces[k].column] = v]
  /\ sensor_fake_commands_' # sensor_fake_commands_
  /\ UNCHANGED <<fake_sensor_command_interfaces_, sensor_interfaces_, sensor_states_,
                 exported_state_interfaces, exported_command_interfaces, export_ret>>
  /\ UNCHANGED <<bufvars, hwvars, swvars>>

-----------------------------------------------------------------------------

(* the calls made on the component, and their arguments *)

InterfaceKeys ==
  {Key(n, i) : n \in {"J1", "J2"}, i \in {HW_IF_POSITION, HW_IF_VELOCITY}}
    \cup {Key("J1", HW_IF_EFFORT)}

\* every start list of at most MaxStartLen keys, and some stop lists
StartLists == UNION {[1..n -> InterfaceKeys] : n \in 0..MaxStartLen}

StopLists ==
  {<<>>,
   <<Key("J1", HW_IF_POSITION), Key("J2", HW_IF_POSITION)>>,
   <<Key("J1", HW_IF_VELOCITY)>>}

\* the switch requests of the simulation-step specification
StepStartLists ==
  {<<>>,
   <<Key("J1", HW_IF_POSITION), Key("J2", HW_IF_POSITION)>>,
   <<Key("J1", HW_IF_VELOCITY), Key("J2", HW_IF_VELOCITY)>>,
   <<Key("J1", HW_IF_VELOCITY)>>}

StepStopLists == {<<>>}

JointIndices == {0, 1}

-----------------------------------------------------------------------------
(* ControllerManager: switch_controller and the switch it hands to update() *)

\* strictness levels of a switch request
BEST_EFFORT == 1
STRICT == 2

\* a name no loaded controller has
UnknownController == 0

\* what a switch request may name
SwitchNames == Controllers \cup {UnknownController}

\* the start and stop lists of the requests: up to MaxRequest names in all
SwitchRequests ==
  {r \in (SUBSET SwitchNames) \X (SUBSET SwitchNames) :
     Cardinality(r[1]) + Cardinality(r[2]) <= MaxRequest}

\* the command interfaces a controller claims while it runs
ClaimOf(c) == IF c <= 2 THEN {"J1/position"} ELSE {"J2/position"}

\* SwitchParams, without the clock (init_time, timeout): when a request times
\* out is left open, see switch_timeout
NoSwitch == [do_switch |-> FALSE, strictness |-> 0, start_asap |-> FALSE]

\* no request has been rejected
NoRequest == [strictness |-> 0, unknown |-> FALSE]

InitSwitch ==
  /\ running = {}
  /\ claimed_interfaces = {}
  /\ start_request_ = {}
  /\ stop_request_ = {}
  /\ switch_params_ = NoSwitch
  /\ phase = "idle"
  /\ switch_ret = "none"
  /\ stop_hooks = {}
  /\ start_hooks = {}
  /\ rejected = NoRequest

\* a start entry is valid for a loaded controller that is not running
ValidStart(c) == c \in Controllers /\ c \notin running

\* a stop entry is valid for a loaded controller that is running
ValidStop(c) == c \in Controllers /\ c \in running

\* The mutant of Rejects: no request is rejected.
Rejects_lenient(start_controllers_, stop_controllers_, strictness) == FALSE

\* STRICT: any invalid entry aborts the whole request
Rejects(start_controllers_, stop_controllers_, strictness) ==
  /\ strictness = STRICT
  /\ \/ \E c \in start_controllers_ : ~ValidStart(c)
     \/ \E c \in stop_controllers_ : ~ValidStop(c)

\* #ifdef TODO_IMPLEMENT_RESOURCE_CHECKING: the macro is defined nowhere and the
\* lists of claimed resources are commented out, so no request fails this test
ResourceConflict(start_controllers_, stop_controllers_) == FALSE

\* switch_controller, up to the point where it waits for update() to do the switch
switch_controller(start_controllers_, stop_controllers_, strictness, start_asap) ==
  /\ phase = "idle"
  /\ IF \/ Rejects(start_controllers_, stop_controllers_, strictness)
        \/ ResourceConflict(start_controllers_, stop_controllers_)
       THEN /\ switch_ret' = "error"
            /\ rejected' = [strictness |-> strictness,
                            unknown |-> UnknownController \in
                                          start_controllers_ \cup stop_controllers_]
            /\ UNCHANGED <<start_request_, stop_request_, switch_params_, phase,
                           stop_hooks, start_hooks>>
       ELSE LET starts == {c \in start_controllers_ : ValidStart(c)}
                stops == {c \in stop_controllers_ : ValidStop(c)}
            IN  IF starts = {} /\ stops = {}
                  THEN /\ switch_ret' = "ok"
                       /\ rejected' = NoRequest
                       /\ UNCHANGED <<start_request_, stop_request_, switch_params_,
                                      phase, stop_hooks, start_hooks>>
                  ELSE /\ rejected' = NoRequest
                       /\ start_request_' = starts
                       /\ stop_request_' = stops
                       /\ switch_params_' = [do_switch |-> TRUE, strictness |-> strictness,
                                             start_asap |-> start_asap]
                       /\ phase' = "switch_requested"
                       /\ switch_ret' = "none"
                       /\ stop_hooks' = {}
                       /\ start_hooks' = {}
  /\ UNCHANGED <<running, claimed_interfaces>>
  /\ UNCHANGED <<bufvars, hwvars, expvars>>

\* manage_switch: update() finds do_switch set and begins with the stop set
manage_switch ==
  /\ phase = "switch_requested"
  /\ switch_params_.do_switch
  /\ phase' = "stopping"
  /\ UNCHANGED <<running, claimed_interfaces, start_request_, stop_request_,
                 switch_params_, switch_ret, stop_hooks, start_hooks>>
  /\ UNCHANGED <<rejected, bufvars, hwvars, expvars>>

\* stop_controllers, one controller: its stop hook, its claims released
stop_controllers(c) ==
  /\ phase = "stopping"
  /\ c \in stop_request_ \ stop_hooks
  /\ running' = running \ {c}
  /\ claimed_interfaces' = {x \in claimed_interfaces : x[1] # c}
  /\ stop_hooks' = stop_hooks \cup {c}
  /\ UNCHANGED <<start_request_, stop_request_, switch_params_, phase, switch_ret,
                 start_hooks>>
  /\ UNCHANGED <<rejected, bufvars, hwvars, expvars>>

\* every controller of the stop set is stopped: on to the controller list
stop_controllers_done ==
  /\ phase = "stopping"
  /\ stop_request_ \subseteq stop_hooks
  /\ phase' = "switching"
  /\ UNCHANGED <<running, claimed_interfaces, start_request_, stop_request_,
                 switch_params_, switch_ret, stop_hooks, start_hooks>>
  /\ UNCHANGED <<rejected, bufvars, hwvars, expvars>>

RECURSIVE ListOf(_)
\* the controllers of a set as a list
ListOf(S) ==
  IF S = {} THEN <<>>
  ELSE LET c == CHOOSE x \in S : \A y \in S : x <= y
       IN  <<c>> \o ListOf(S \ {c})

\* the write view without the stopped controllers and with the started ones,
\* then published: get_unused_list, the edit and switch_updated_list in one step
publish_switched_list ==
  /\ phase = "switching"
  /\ controllers_lock_ = 0
  /\ used_by_realtime_controllers_index_ # get_other_list(updated_controllers_index_)
  /\ LET to == get_other_list(updated_controllers_index_)
         new == ListOf(running \cup start_request_)
     IN  /\ controllers_lists_' = [controllers_lists_ EXCEPT ![to] = new]
         /\ updated_controllers_index_' = to
         /\ published_ref' = to
         /\ published_list' = new
  /\ phase' = "starting"
  /\ UNCHANGED <<used_by_realtime_controllers_index_, controllers_lock_, wpc,
                 free_controllers_list, wait_index, unused_ref, rt_ref>>
  /\ UNCHANGED <<running, claimed_interfaces, start_request_, stop_request_,
                 switch_params_, switch_ret, stop_hooks, start_hooks>>
  /\ UNCHANGED <<rejected, hwvars, expvars>>

\* The mutant of StartAllowed: starting does not wait for the stop phase.
StartAllowed_early ==
  /\ phase \in {"stopping", "starting"}
  /\ \/ switch_params_.start_asap
     \/ used_by_realtime_controllers_index_ # get_other_list(updated_controllers_index_)

\* starting follows the publication; without start_asap it also waits until the
\* rt thread is off the list the stop phase left behind
StartAllowed ==
  /\ phase = "starting"
  /\ \/ switch_params_.start_asap
     \/ used_by_realtime_controllers_index_ # get_other_list(updated_controllers_index_)

\* start_controllers / start_controllers_asap, one controller: its claims
\* taken, its start hook
start_controllers(c) ==
  /\ StartAllowed
  /\ c \in start_request_ \ start_hooks
  /\ claimed_interfaces' = claimed_interfaces \cup {<<c, i>> : i \in ClaimOf(c)}
  /\ running' = running \cup {c}
  /\ start_hooks' = start_hooks \cup {c}
  /\ UNCHANGED <<start_request_, stop_request_, switch_params_, phase, switch_ret,
                 stop_hooks>>
  /\ UNCHANGED <<rejected, bufvars, hwvars, expvars>>

\* every controller of the start set is started: the request is discarded and
\* switch_controller returns
switch_done ==
  /\ phase = "starting"
  /\ start_request_ \subseteq start_hooks
  /\ phase' = "idle"
  /\ switch_params_' = NoSwitch
  /\ start_request_' = {}
  /\ stop_request_' = {}
  /\ stop_hooks' = {}
  /\ start_hooks' = {}
  /\ switch_ret' = "ok"
  /\ UNCHANGED <<running, claimed_interfaces>>
  /\ UNCHANGED <<rejected, bufvars, hwvars, expvars>>

\* the timeout of the request expires before the switch is complete, which may
\* happen at any point of it: what was stopped stays stopped, switch_controller
\* returns an error
switch_timeout ==
  /\ phase # "idle"
  /\ switch_params_.do_switch
  /\ phase' = "idle"
  /\ switch_params_' = NoSwitch
  /\ start_request_' = {}
  /\ stop_request_' = {}
  /\ stop_hooks' = {}
  /\ start_hooks' = {}
  /\ switch_ret' = "error"
  /\ UNCHANGED <<running, claimed_interfaces>>
  /\ UNCHANGED <<rejected, bufvars, hwvars, expvars>>

Init == InitBuf /\ InitHW /\ InitSwitch /\ InitExport

\* the simulation step: every description, the whole-group switch requests
NextHW ==
  \/ \E info \in Infos, returns \in BOOLEAN : configure(info, returns)
  \/ \E s \in StepStartLists, t \in StepStopLists : prepare_command_mode_switch(s, t)
  \/ perform_command_mode_switch
  \/ \E ticks \in Periods : read(ticks)
  \/ \E j \in JointIndices, interface \in DOMAIN CommandValues :
       \E v \in CommandValues[interface] : WriteCommand(j, interface, v)

SpecHW == Init /\ [][NextHW]_vars

\* the mode gate: every start list, and the switches that follow
NextGate ==
  \/ \E info \in GateInfos, returns \in BOOLEAN : configure(info, returns)
  \/ \E s \in StartLists, t \in StopLists : prepare_command_mode_switch(s, t)
  \/ perform_command_mode_switch

SpecGate == Init /\ [][NextGate]_vars

\* the mode gate with the simulation step: every start list, the switches and
\* the reads that follow
NextModes ==
  \/ \E info \in GateInfos, returns \in BOOLEAN : configure(info, returns)
  \/ \E s \in StartLists, t \in StopLists : prepare_command_mode_switch(s, t)
  \/ perform_command_mode_switch
  \/ \E ticks \in Periods : read(ticks)

SpecModes == Init /\ [][NextModes]_vars

\* descriptions in which the follower J2 has a cell in an "other" row: the
\* interface bound to the following offset, and a command interface of its own
OrderInfos ==
  {Info(InitialPosition, PosVelLoad, Mimic("J1") @@ Multiplier(0 - 1), <<>>,
        Offset(D(3)) @@ Custom("load")),
   Info(NoParams, PosVel, Mimic("J1"), <<"load">>, NoParams)}

\* the simulation step on these descriptions
NextOrder ==
  \/ \E info \in OrderInfos, returns \in BOOLEAN : configure(info, returns)
  \/ \E s \in StepStartLists, t \in StepStopLists : prepare_command_mode_switch(s, t)
  \/ perform_command_mode_switch
  \/ \E ticks \in Periods : read(ticks)
  \/ \E j \in JointIndices, interface \in DOMAIN CommandValues :
       \E v \in CommandValues[interface] : WriteCommand(j, interface, v)

SpecOrder == Init /\ [][NextOrder]_vars

\* one sensor of the description
Sensor(name, state_interfaces) == [name |-> name, state_interfaces |-> state_interfaces]

FakeSensorCommands == (<<"fake_sensor_commands">> :> "true")

\* a description with the joints and sensors given
InfoS(joints, sensors, hp) ==
  [joints |-> Vec(joints), sensors |-> Vec(sensors), hardware_parameters |-> hp]

\* descriptions with sensors: as many sensors as joints, fewer, more, and no joint
ExportInfos ==
  {InfoS(<<Joint("J1", NoParams, PosVel, PosVel), Joint("J2", NoParams, <<"load">>, PosVel)>>,
         <<Sensor("S1", <<"fx", "fy">>), Sensor("S2", <<"fx">>)>>, FakeSensorCommands),
   InfoS(<<Joint("J1", NoParams, PosVel, PosVel), Joint("J2", NoParams, PosVel, PosVel)>>,
         <<Sensor("S1", <<"fx">>)>>, NoParams),
   InfoS(<<Joint("J1", NoParams, PosVel, PosVel)>>,
         <<Sensor("S1", <<"fx", "fy">>), Sensor("S2", <<"fx">>)>>, FakeSensorCommands),
   InfoS(<<>>, <<Sensor("S1", <<"fx">>)>>, NoParams)}

\* what is written through the fake sensor command handles
SensorValues == {D(1), D(3)}
\* the positions in the exported list of command handles
MaxHandles == 6

\* configuration, the two exports, and the sensor loopback of the step
NextExport ==
  \/ \E info \in ExportInfos, returns \in BOOLEAN : configure(info, returns)
  \/ \E returns \in BOOLEAN : export_state_interfaces(returns)
  \/ \E returns \in BOOLEAN : export_command_interfaces(returns)
  \/ \E k \in 1..MaxHandles, v \in SensorValues : WriteSensorCommand(k, v)
  \/ \E ticks \in Periods : read(ticks)

SpecExport == Init /\ [][NextExport]_vars

\* the switch requests and joints of the mimic specification
MimicStartLists ==
  {<<>>,
   <<Key("J1", HW_IF_POSITION), Key("J2", HW_IF_POSITION), Key("J3", HW_IF_POSITION)>>,
   <<Key("J1", HW_IF_VELOCITY), Key("J2", HW_IF_VELOCITY), Key("J3", HW_IF_VELOCITY)>>}

MimicJointIndices == {0, 1, 2}

\* the simulation step on chains of mimic joints
NextMimic ==
  \/ \E info \in MimicInfos, returns \in BOOLEAN : configure(info, returns)
  \/ \E s \in MimicStartLists : prepare_command_mode_switch(s, <<>>)
  \/ perform_command_mode_switch
  \/ \E ticks \in Periods : read(ticks)
  \/ \E j \in MimicJointIndices, interface \in DOMAIN CommandValues :
       \E v \in CommandValues[interface] : WriteCommand(j, interface, v)

SpecMimic == Init /\ [][NextMimic]_vars

\* configure alone, on every description
NextConf == \E info \in ConfInfos, returns \in BOOLEAN : configure(info, returns)

SpecConf == Init /\ [][NextConf]_vars

-----------------------------------------------------------------------------
NextBuf ==
  \/ update_and_get_used_by_rt_list
  \/ \E w \in Writers : AcquireLock(w)
  \/ \E w \in Writers : ReleaseLock(w)
  \/ \E w \in Writers : get_unused_list(w)
  \/ \E w \in Writers : wait_until_rt_not_using(w)
  \/ \E w \in Writers : sleep_for(w)
  \/ \E w \in Writers : EditList(w)
  \/ \E w \in Writers : switch_updated_list(w)

\* update(): the next step of the switch it has been handed
update ==
  \/ manage_switch
  \/ \E c \in Controllers : stop_controllers(c)
  \/ stop_controllers_done
  \/ publish_switched_list
  \/ \E c \in Controllers : start_controllers(c)
  \/ switch_done

\* switch requests, the switch done by update(), and the rt loop's accessor
NextSwitch ==
  \/ \E r \in SwitchRequests, strictness \in {BEST_EFFORT, STRICT}, start_asap \in BOOLEAN :
       switch_controller(r[1], r[2], strictness, start_asap)
  \/ update
  \/ switch_timeout
  \/ update_and_get_used_by_rt_list

SpecSwitch == Init /\ [][NextSwitch]_vars

\* the rt loop keeps cycling: it takes the controller list and calls update();
\* nothing obliges a timeout to expire or a client to send a request
SwitchFairness ==
  /\ WF_vars(update_and_get_used_by_rt_list)
  /\ WF_vars(update)

SpecSwitchFair == SpecSwitch /\ SwitchFairness

SpecBuf == Init /\ [][NextBuf]_vars

\* the non-real-time threads keep running (the operating system schedules them);
\* nothing obliges the real-time loop to take another cycle
WriterFairness ==
  \A w \in Writers : WF_vars(wait_until_rt_not_using(w)) /\ WF_vars(sleep_for(w))

SpecBufWriterFair == SpecBuf /\ WriterFairness

-----------------------------------------------------------------------------
(* Claims about RTControllerListWrapper *)

\* C1: under every interleaving of the rt reader and the non-rt writers, the
\* list a writer obtained from get_unused_list and has not yet published is
\* never the list most recently returned to the reader.
C1_WriterNeverEditsExposedList ==
  \A w \in Writers :
    unused_ref[w] # NoList =>
      /\ unused_ref[w] # rt_ref
      /\ unused_ref[w] # used_by_realtime_controllers_index_

\* C1 witness: a writer holds an edited, unpublished list while the reader
\* holds the other one.
C1_Witness ==
  \E w \in Writers :
    /\ wpc[w] = "has_list"
    /\ rt_ref # NoList
    /\ controllers_lists_[unused_ref[w]] # controllers_lists_[rt_ref]

\* C2: the rt accessor is enabled in every reachable state (whoever holds
\* controllers_lock_, spins or edits), and its single step makes the
\* "updated" list the "used by rt" list that it returns.
C2_ReaderNeverWaits ==
  /\ [](ENABLED update_and_get_used_by_rt_list)
  /\ [][update_and_get_used_by_rt_list =>
          /\ used_by_realtime_controllers_index_' = updated_controllers_index_
          /\ rt_ref' = updated_controllers_index_
          /\ wpc' = wpc /\ controllers_lock_' = controllers_lock_]_vars

\* C2 witness: the reader has been handed the newly published list while the
\* publishing writer still holds controllers_lock_.
C2_Witness ==
  \E w \in Writers :
    /\ controllers_lock_ = w
    /\ wpc[w] \in {"switch_wait", "switch_sleep", "switched"}
    /\ rt_ref = updated_controllers_index_
    /\ rt_ref = published_ref

\* C3: after switch_updated_list, the next call of the rt accessor returns
\* exactly the list the writer obtained from its preceding get_unused_list,
\* with the writer's edits in it.
C3_PublishedListIsNextRead ==
  [][(update_and_get_used_by_rt_list /\ published_ref # NoList) =>
        /\ rt_ref' = published_ref
        /\ controllers_lists_'[rt_ref'] = published_list]_vars

\* C3 witness: the reader holds the published list, which carries an edit.
C3_Witness ==
  /\ rt_ref # NoList
  /\ rt_ref = published_ref
  /\ published_list # <<>>
  /\ controllers_lists_[rt_ref] = published_list

-----------------------------------------------------------------------------
(* Claims about GenericSystem's command mode gate *)

\* the names of all joints of the group
GroupNames == {info_.joints[i].name : i \in Idx(info_.joints)}

\* joint j is no follower of a mimic relation
NonMimic(j) == \A k \in Idx(mimic_joints_) : mimic_joints_[k].joint_index # j

\* the start list names position or velocity for some joints of the group, not all
PartialGroup(start_interfaces) ==
  /\ NamedJoints(info_, start_interfaces) # {}
  /\ NamedJoints(info_, start_interfaces) # GroupNames

\* what perform_command_mode_switch would activate from the stored start modes
PendingMode ==
  IF Len(start_modes_) # 0 /\ Contains(start_modes_, HW_IF_POSITION) THEN "position"
  ELSE IF Len(start_modes_) # 0 /\ Contains(start_modes_, HW_IF_VELOCITY) THEN "velocity"
  ELSE "none"

\* C4: for every start list (any length, repeated entries allowed),
\* prepare_command_mode_switch returns ERROR whenever the joints whose position or
\* velocity interface is named are a non-empty proper subset of the group, and
\* the rejected call leaves position_controller_running_ and
\* velocity_controller_running_ unchanged.
C4_PartialGroupRejected ==
  [][\A s \in StartLists, t \in StopLists :
       (prepare_command_mode_switch(s, t) /\ PartialGroup(s)) =>
         /\ ret_val' = "ERROR"
         /\ position_controller_running_' = position_controller_running_
         /\ velocity_controller_running_' = velocity_controller_running_]_vars

\* C5: prepare_command_mode_switch returns ERROR whenever the start list names
\* both a position and a velocity interface among the joints of the group.
C5_MixedModesRejected ==
  named_modes = {HW_IF_POSITION, HW_IF_VELOCITY} => ret_val = "ERROR"

\* C5 witness: a mixed request with one entry per joint (so that the count of
\* start modes equals the number of joints) has been rejected.
C5_Witness ==
  /\ named_modes = {HW_IF_POSITION, HW_IF_VELOCITY}
  /\ named_joints = GroupNames
  /\ Len(start_modes_) = Size(info_.joints)
  /\ ret_val = "ERROR"

\* C6: prepare_command_mode_switch only validates; stated here for the calls
\* that return ERROR after an earlier accepted request: the running-mode flags,
\* the command and state matrices and the mode a later
\* perform_command_mode_switch would apply are unchanged.
C6_PrepareOnlyValidates ==
  [][\A s \in StartLists, t \in StopLists :
       (prepare_command_mode_switch(s, t) /\ ret_val = "OK" /\ ret_val' = "ERROR") =>
         /\ position_controller_running_' = position_controller_running_
         /\ velocity_controller_running_' = velocity_controller_running_
         /\ joint_commands_' = joint_commands_
         /\ joint_states_' = joint_states_
         /\ other_commands_' = other_commands_
         /\ other_states_' = other_states_
         /\ PendingMode' = PendingMode]_vars

-----------------------------------------------------------------------------
(* Claims about GenericSystem's mode switch and simulation step *)

\* the position commands equal the position states, the velocity commands are zero
PositionSeeded ==
  \A j \in Idx(info_.joints) :
    joint_commands_[POSITION_INTERFACE_INDEX][j] = joint_states_[POSITION_INTERFACE_INDEX][j]
VelocityZeroed ==
  \A j \in Idx(info_.joints) : joint_commands_[VELOCITY_INTERFACE_INDEX][j] = D(0)

\* C7: perform_command_mode_switch after an accepted prepare: position requested
\* - every position command becomes the current position state and position is
\* the only active mode; velocity requested - every velocity command becomes zero
\* and velocity is the only active mode; neither - both modes are cleared.  The
\* switch moves no state, and with following offset 0 a step taken on the
\* commands as the switch left them leaves the position state of every
\* non-mimic joint where it was.
C7_PerformAppliesAcceptedSwitch ==
  /\ [][(perform_command_mode_switch /\ ret_val = "OK") =>
          /\ joint_states_' = joint_states_
          /\ named_modes = {HW_IF_POSITION} =>
               /\ PositionSeeded'
               /\ position_controller_running_' /\ ~velocity_controller_running_'
          /\ named_modes = {HW_IF_VELOCITY} =>
               /\ VelocityZeroed'
               /\ velocity_controller_running_' /\ ~position_controller_running_'
          /\ named_modes = {} =>
               ~position_controller_running_' /\ ~velocity_controller_running_']_vars
  /\ [][\A ticks \in Periods :
          (/\ read(ticks)
           /\ position_state_following_offset_ = D(0)
           /\ \/ position_controller_running_ /\ PositionSeeded
              \/ velocity_controller_running_ /\ VelocityZeroed
              \/ ~position_controller_running_ /\ ~velocity_controller_running_) =>
            \A j \in Idx(info_.joints) :
              NonMimic(j) =>
                joint_states_'[POSITION_INTERFACE_INDEX][j]
                  = joint_states_[POSITION_INTERFACE_INDEX][j]]_vars

\* C7 witness: position was requested and accepted, the switch seeded the
\* command from the state 0.2, and a step has run on it: the state is still 0.2.
C7_Witness ==
  /\ status_ = "CONFIGURED"
  /\ ret_val = "OK" /\ named_modes = {HW_IF_POSITION}
  /\ position_controller_running_ /\ ~velocity_controller_running_
  /\ ~command_propagation_disabled_
  /\ position_state_following_offset_ = D(0)
  /\ joint_states_[POSITION_INTERFACE_INDEX][0] = D(2)
  /\ joint_commands_[POSITION_INTERFACE_INDEX][0] = D(2)
  /\ joint_pos_commands_old_[0] = D(2)

\* the values of the scenario of C8: position 5.0, velocity command 2.0
ScenarioStates == [i \in Idx(standard_interfaces_) |-> [j \in {0} |->
                     IF i = POSITION_INTERFACE_INDEX THEN D(50) ELSE D(0)]]
ScenarioCommands == [i \in Idx(standard_interfaces_) |-> [j \in {0} |->
                       IF i = VELOCITY_INTERFACE_INDEX THEN D(20) ELSE NaN]]

\* C8: for a non-mimic joint in velocity mode with command propagation enabled,
\* a set velocity command v and dt > 0, one step yields position state = old
\* position state + v * dt, velocity state = v and position command = the new
\* position state; position 5.0, v = 2.0, dt = 0.1 give 5.2, 2.0 and 5.2.
C8_VelocityStepIntegrates ==
  [][\A ticks \in Periods :
       (/\ read(ticks) /\ ticks > 0
        /\ velocity_controller_running_ /\ ~position_controller_running_
        /\ ~command_propagation_disabled_) =>
         /\ \A j \in Idx(info_.joints) :
              (/\ NonMimic(j)
               /\ IsNum(joint_commands_[VELOCITY_INTERFACE_INDEX][j])
               /\ IsNum(joint_states_[POSITION_INTERFACE_INDEX][j])) =>
                /\ joint_states_'[POSITION_INTERFACE_INDEX][j] =
                     D(joint_states_[POSITION_INTERFACE_INDEX][j][2]
                       + (joint_commands_[VELOCITY_INTERFACE_INDEX][j][2] * TickMs * ticks)
                           \div 1000)
                /\ joint_states_'[VELOCITY_INTERFACE_INDEX][j] =
                     joint_commands_[VELOCITY_INTERFACE_INDEX][j]
                /\ joint_commands_'[POSITION_INTERFACE_INDEX][j] =
                     joint_states_'[POSITION_INTERFACE_INDEX][j]
         /\ LET st == VelocityLoopStates(ScenarioStates, ScenarioCommands, 100)
            IN /\ st[POSITION_INTERFACE_INDEX][0] = D(52)
               /\ st[VELOCITY_INTERFACE_INDEX][0] = D(20)
               /\ VelocityLoopCommands(st, ScenarioCommands)[POSITION_INTERFACE_INDEX][0]
                    = D(52)]_vars

\* C8 witness: a velocity-mode step of 0.1 s with command 2.0 has moved a joint
\* from 0.2 to 0.4 and resynchronised its position command.
C8_Witness ==
  /\ status_ = "CONFIGURED"
  /\ velocity_controller_running_ /\ ~command_propagation_disabled_
  /\ period_ = 100 /\ begin = 1
  /\ <<"initial_", HW_IF_POSITION>> \in DOMAIN info_.joints[0].parameters
  /\ NonMimic(0)
  /\ joint_commands_[VELOCITY_INTERFACE_INDEX][0] = D(20)
  /\ joint_states_[VELOCITY_INTERFACE_INDEX][0] = D(20)
  /\ joint_states_[POSITION_INTERFACE_INDEX][0] = D(4)
  /\ joint_commands_[POSITION_INTERFACE_INDEX][0] = D(4)

\* a custom interface with following offset was designated and found
BindingActive == index_custom_interface_with_following_offset_ # NoIndex

\* C9 as stated: in position mode with a set position command (propagation
\* enabled, non-mimic joint), position state = command + offset when no binding
\* is active, and position state = command when a binding is active, the bound
\* interface's state then being position command + offset.
C9_OffsetOnExactlyOneTarget ==
  [][\A ticks \in Periods :
       (/\ read(ticks)
        /\ position_controller_running_ /\ ~velocity_controller_running_
        /\ ~command_propagation_disabled_) =>
         \A j \in Idx(info_.joints) :
           (NonMimic(j) /\ ~isnan(joint_commands_[POSITION_INTERFACE_INDEX][j])) =>
             IF BindingActive
               THEN /\ joint_states_'[POSITION_INTERFACE_INDEX][j] =
                         joint_commands_[POSITION_INTERFACE_INDEX][j]
                    /\ other_states_'[index_custom_interface_with_following_offset_][j] =
                         Add(joint_commands_[POSITION_INTERFACE_INDEX][j],
                             position_state_following_offset_)
               ELSE joint_states_'[POSITION_INTERFACE_INDEX][j] =
                      Add(joint_commands_[POSITION_INTERFACE_INDEX][j],
                          position_state_following_offset_)]_vars

\* C9 amended: the offset is applied to at most one target per step.  In
\* position mode with propagation enabled and a set position command, the
\* position state of a non-mimic joint = command + offset when no custom
\* interface is designated, and = command when one is designated, found or not;
\* when it is found, its state = position command + offset whenever the
\* position command is set, whatever its own command, and when it is not found
\* no interface receives the offset.
C9_OffsetOnAtMostOneTarget ==
  [][\A ticks \in Periods :
       read(ticks) =>
         /\ (/\ position_controller_running_ /\ ~velocity_controller_running_
             /\ ~command_propagation_disabled_) =>
              \A j \in Idx(info_.joints) :
                (NonMimic(j) /\ ~isnan(joint_commands_[POSITION_INTERFACE_INDEX][j])) =>
                  joint_states_'[POSITION_INTERFACE_INDEX][j] =
                    IF custom_interface_with_following_offset_ = ""
                      THEN Add(joint_commands_[POSITION_INTERFACE_INDEX][j],
                               position_state_following_offset_)
                      ELSE joint_commands_[POSITION_INTERFACE_INDEX][j]
         /\ \A i \in Idx(other_interfaces_), j \in Idx(info_.joints) :
              IF BindingActive /\ i = index_custom_interface_with_following_offset_
                   /\ ~isnan(joint_commands_'[POSITION_INTERFACE_INDEX][j])
                THEN other_states_'[i][j] =
                       Add(joint_commands_'[POSITION_INTERFACE_INDEX][j],
                           position_state_following_offset_)
                ELSE other_states_'[i][j] =
                       IF isnan(other_commands_[i][j]) THEN other_states_[i][j]
                       ELSE other_commands_[i][j]]_vars

\* C9 witness: with the custom interface bound and offset 0.3, a position-mode
\* step has left the position state on the command and put command + 0.3 on the
\* bound interface although that interface has a command of its own.
C9_Witness ==
  /\ status_ = "CONFIGURED"
  /\ BindingActive
  /\ position_state_following_offset_ = D(3)
  /\ position_controller_running_ /\ ~command_propagation_disabled_
  /\ joint_commands_[POSITION_INTERFACE_INDEX][0] = D(4)
  /\ joint_pos_commands_old_[0] = D(4)
  /\ joint_states_[POSITION_INTERFACE_INDEX][0] = D(4)
  /\ other_commands_[index_custom_interface_with_following_offset_][0] = D(5)
  /\ other_states_[index_custom_interface_with_following_offset_][0] = D(7)

\* C10: a step whose dt is <= 0, or that has no previous position command to
\* derive from, skips the velocity derivation of the position-controlled joints:
\* their velocity state is left as it was and nothing is divided by dt.
C10_NoDerivationWithoutDt ==
  [][\A ticks \in Periods :
       (/\ read(ticks)
        /\ position_controller_running_ /\ ~velocity_controller_running_
        /\ ~command_propagation_disabled_) =>
         \A j \in Idx(info_.joints) :
           (/\ NonMimic(j)
            /\ ~isnan(joint_commands_[POSITION_INTERFACE_INDEX][j])
            /\ (TickMs * ticks <= 0 \/ isnan(joint_pos_commands_old_[j]))) =>
             joint_states_'[VELOCITY_INTERFACE_INDEX][j]
               = joint_states_[VELOCITY_INTERFACE_INDEX][j]]_vars

MimicLaw ==
  \A f \in Idx(info_.joints) :
    HasMimic(info_, f) =>
      LET l == find_joint(info_, info_.joints[f].parameters[<<"mimic">>])
          m == IF <<"multiplier">> \in DOMAIN info_.joints[f].parameters
                 THEN info_.joints[f].parameters[<<"multiplier">>] ELSE 1
      IN \A r \in Idx(joint_states_) :
           joint_states_[r][f] = Times(m, joint_states_[r][l])

\* C12: mimic law - after every step, for every configured mimic relation
\* (follower f, leader l, multiplier m) and every interface row r, state[r][f]
\* equals m times state[r][l], both taken after that step, also when the leader
\* is itself a follower of another joint, whatever the follower's own command.
C12_MimicLaw ==
  [][\A ticks \in Periods : read(ticks) => MimicLaw']_vars

-----------------------------------------------------------------------------
(* Claims about GenericSystem's configuration *)

\* some joint of the description names a mimicked joint that is not in the list
DanglingMimic ==
  \E i \in Idx(info_.joints) :
    /\ HasMimic(info_, i)
    /\ \A k \in Idx(info_.joints) :
         info_.joints[k].name # info_.joints[i].parameters[<<"mimic">>]

\* C13: configure never reaches the CONFIGURED status when some joint declares
\* a mimic parameter naming a joint that is not in the joint list, and no mimic
\* relation with a dangling leader index is ever stored.
C13_DanglingMimicFailsConfigure ==
  /\ DanglingMimic => status_ # "CONFIGURED"
  /\ \A k \in Idx(mimic_joints_) :
       /\ mimic_joints_[k].mimicked_joint_index \in Idx(info_.joints)
       /\ mimic_joints_[k].joint_index \in Idx(info_.joints)

\* C13 witness: configure ran on a description whose second joint mimics a
\* missing joint; the valid relation of the first joint was stored before the
\* failure and the component is not configured.
C13_Witness ==
  /\ DanglingMimic
  /\ info_ # NoInfo
  /\ status_ = "UNKNOWN"
  /\ Size(mimic_joints_) = 1
  /\ mimic_joints_[0].mimicked_joint_index = 1

\* joint j declares the interface as a command or a state interface
Declares(j, name) ==
  \/ \E k \in 1..Len(info_.joints[j].command_interfaces) :
       info_.joints[j].command_interfaces[k] = name
  \/ \E k \in 1..Len(info_.joints[j].state_interfaces) :
       info_.joints[j].state_interfaces[k] = name

\* the interface names of the descriptions
InterfaceNames ==
  {HW_IF_POSITION, HW_IF_VELOCITY, HW_IF_ACCELERATION, HW_IF_EFFORT, "load", "ghost"}

\* the storage slots of the pair (joint j, interface): its cells in the state
\* matrices, one per row carrying the interface's name (the command matrices
\* have the same shape)
Slots(j, name) ==
  {<<"standard", r>> : r \in {r \in Idx(standard_interfaces_) :
      /\ standard_interfaces_[r] = name
      /\ r \in DOMAIN joint_states_ /\ r \in DOMAIN joint_commands_
      /\ j \in DOMAIN joint_states_[r] /\ j \in DOMAIN joint_commands_[r]}}
  \cup
  {<<"other", r>> : r \in {r \in Idx(other_interfaces_) :
      /\ other_interfaces_[r] = name
      /\ r \in DOMAIN other_states_ /\ r \in DOMAIN other_commands_
      /\ j \in DOMAIN other_states_[r] /\ j \in DOMAIN other_commands_[r]}}

HasInitial(j, name) == <<"initial_", name>> \in DOMAIN info_.joints[j].parameters
InitialOf(j, name) == info_.joints[j].parameters[<<"initial_", name>>]

\* C15: after configure every storage cell (command or state, standard or
\* other vocabulary) of an interface for which the entity declares no initial
\* value holds NaN, and a cell with a declared initial value holds that value.
C15_CellsUnsetOrInitial ==
  status_ = "CONFIGURED" =>
    \A j \in Idx(info_.joints) :
      /\ \A r \in Idx(standard_interfaces_) :
           IF HasInitial(j, standard_interfaces_[r])
             THEN joint_states_[r][j] = InitialOf(j, standard_interfaces_[r])
             ELSE isnan(joint_states_[r][j]) /\ isnan(joint_commands_[r][j])
      /\ \A r \in Idx(other_interfaces_) :
           IF HasInitial(j, other_interfaces_[r])
             THEN other_states_[r][j] = InitialOf(j, other_interfaces_[r])
             ELSE isnan(other_states_[r][j]) /\ isnan(other_commands_[r][j])

-----------------------------------------------------------------------------
(* Claims about the writer's waits on the double buffer *)

\* thread w is inside wait_until_rt_not_using
Waiting(w) == wpc[w] \in {"unused_wait", "unused_sleep", "switch_wait", "switch_sleep"}

\* C19: the writer's wait always ends.  With the real-time loop running it ends
\* because the reader moves off the waited-for list; when the reader makes no
\* further call it ends as well, the wait being capped and surfacing a timeout:
\* so every wait ends in every execution in which the writers keep running.
C19_WaitAlwaysEnds ==
  \A w \in Writers : Waiting(w) ~> ~Waiting(w)

\* C20: whenever switch_updated_list returns, the real-time thread is using the
\* new "updated" list, also when the reader has not yet made its first call.
C20_SwitchReturnsWithReaderOnNewList ==
  [][\A w \in Writers :
       (wpc[w] = "switch_wait" /\ wpc'[w] = "switched") =>
         used_by_realtime_controllers_index_' = updated_controllers_index_']_vars

-----------------------------------------------------------------------------
(* Claims about switch_controller and the switch orchestrator *)

\* C16: a STRICT switch_controller that names a controller which is not loaded
\* is rejected and changes no controller's running state, no controller list and
\* not the pending switch request; the same request under BEST_EFFORT drops the
\* unknown entry, and its remaining valid controllers are the ones the switch
\* starts and stops.
C16_StrictRejectsUnknownBestEffortDrops ==
  [][/\ (phase = "idle" /\ swvars' # swvars) =>
          \A r \in {x \in SwitchRequests : UnknownController \in x[1] \cup x[2]},
             start_asap \in BOOLEAN :
            /\ switch_controller(r[1], r[2], STRICT, start_asap) =>
                 /\ switch_ret' = "error"
                 /\ UNCHANGED <<running, claimed_interfaces, controllers_lists_,
                                updated_controllers_index_, start_request_,
                                stop_request_, switch_params_, phase>>
            /\ switch_controller(r[1], r[2], BEST_EFFORT, start_asap) =>
                 LET starts == {c \in r[1] \ {UnknownController} : ValidStart(c)}
                     stops == {c \in r[2] \ {UnknownController} : ValidStop(c)}
                 IN  /\ switch_ret' # "error"
                     /\ starts \cup stops # {} =>
                          /\ start_request_' = starts
                          /\ stop_request_' = stops
                          /\ switch_params_'.do_switch
                          /\ phase' = "switch_requested"
     /\ switch_done =>
          /\ start_request_ \subseteq running'
          /\ stop_request_ \cap running' = {}
          /\ UnknownController \notin start_request_ \cup stop_request_]_vars

\* a STRICT request naming an unknown controller has been rejected while a
\* controller was running
C16_Witness ==
  /\ rejected = [strictness |-> STRICT, unknown |-> TRUE]
  /\ switch_ret = "error"
  /\ phase = "idle"
  /\ running # {}

\* C17: no two active controllers hold a claim on the same command interface.
C17_NoSharedClaim ==
  \A x \in claimed_interfaces, y \in claimed_interfaces :
    x[2] = y[2] => x[1] = y[1]

\* the order of the orchestrator's states; a timeout leads back to idle
PhaseOrder ==
  {<<"idle", "switch_requested">>, <<"switch_requested", "stopping">>,
   <<"stopping", "switching">>, <<"switching", "starting">>, <<"starting", "idle">>,
   <<"switch_requested", "idle">>, <<"stopping", "idle">>, <<"switching", "idle">>}

\* C18: within one switch request no controller's start hook is called before
\* the stop hook of every controller of the stop set has been called and its
\* interfaces released; the orchestrator passes through stopping before
\* starting, and returns to idle afterwards.
C18_StopBeforeStart ==
  /\ [][/\ \A c \in Controllers :
             start_controllers(c) =>
               /\ stop_request_ \subseteq stop_hooks
               /\ \A x \in claimed_interfaces : x[1] \notin stop_request_
               /\ phase = "starting"
        /\ phase' # phase => <<phase, phase'>> \in PhaseOrder]_vars
  /\ (phase # "idle") ~> (phase = "idle")

\* one request stops a controller and starts another: the hand-over
C18_Witness ==
  /\ phase = "starting"
  /\ stop_hooks # {}
  /\ start_hooks # {}

-----------------------------------------------------------------------------
(* Claims about the control modes *)

\* C21: position mode and velocity mode are never both active, in any state
\* reached by prepare_command_mode_switch, perform_command_mode_switch and read
\* calls, and both are inactive right after configure.
C21_AtMostOneModeActive ==
  /\ [](~(position_controller_running_ /\ velocity_controller_running_))
  /\ [][\A info \in GateInfos :
          (configure(info, TRUE) /\ status_' = "CONFIGURED") =>
            (~position_controller_running_' /\ ~velocity_controller_running_')]_vars

\* velocity mode is active after position mode was, and the component has stepped
C21_Witness ==
  /\ velocity_controller_running_
  /\ ~position_controller_running_
  /\ begin > 0
  /\ \E j \in Idx(info_.joints) : ~isnan(joint_commands_[POSITION_INTERFACE_INDEX][j])

\* C22: perform_command_mode_switch activates a mode only from a start set that
\* prepare_command_mode_switch accepted: when the last prepare returned ERROR, or
\* none has been called since configure, perform activates neither mode.
C22_PerformOnlyAfterAcceptedPrepare ==
  [][(perform_command_mode_switch /\ ret_val # "OK") =>
       (~position_controller_running_' /\ ~velocity_controller_running_')]_vars

-----------------------------------------------------------------------------
(* Claims about the values of the state cells *)

\* every cell of the standard state rows is a finite number
AllNum(states) == \A i \in DOMAIN states : \A j \in DOMAIN states[i] : IsNum(states[i][j])

\* no cell of the standard state rows is NaN
NoNaN(states) == \A i \in DOMAIN states : \A j \in DOMAIN states[i] : ~isnan(states[i][j])

\* C24: after a successful configure no standard joint state cell ever holds NaN:
\* configure leaves none, and a step with dt > 0 taken from finite states leaves
\* none either, the first step after an accepted switch into position mode
\* included.
C24_NoNaNStates ==
  [][/\ \A info \in Infos :
          (configure(info, TRUE) /\ status_' = "CONFIGURED") => NoNaN(joint_states_')
     /\ \A ticks \in Periods \ {0} :
          (read(ticks) /\ ret_val = "OK" /\ AllNum(joint_states_)) =>
            NoNaN(joint_states_')]_vars

-----------------------------------------------------------------------------
(* Claims about the order of the updates within one step *)

\* C23: within one step the mimic coupling is applied after all other joint
\* state updates: every state cell of a follower joint, the cells of the "other"
\* rows included, ends the step with the value it had when the mimic coupling had
\* been applied.
C23_MimicAppliedLast ==
  [][\A ticks \in Periods :
       read(ticks) =>
         \A m \in Idx(mimic_joints_) :
           /\ \A i \in DOMAIN joint_states_ :
                joint_states_'[i][mimic_joints_[m].joint_index] =
                  StatesAfterMimic(ticks).joint_states[i][mimic_joints_[m].joint_index]
           /\ \A i \in DOMAIN other_states_ :
                other_states_'[i][mimic_joints_[m].joint_index] =
                  StatesAfterMimic(ticks).other_states[i][mimic_joints_[m].joint_index]]_vars

-----------------------------------------------------------------------------
(* Claims about the exported handles *)

\* C25: for every configuration, whatever its numbers of joints and sensors, the
\* handles export_state_interfaces and export_command_interfaces hand out point
\* to cells inside the allocated matrices: row < rows and column < columns.
C25_HandlesInsideMatrices ==
  /\ \A k \in 1..Len(exported_state_interfaces) :
       InsideMatrix(exported_state_interfaces[k])
  /\ \A k \in 1..Len(exported_command_interfaces) :
       InsideMatrix(exported_command_interfaces[k])

=============================================================================
